---- MODULE Spec2Model ----
(***************************************************************************)
(* The per-guild playback queue of airhornbot (cmd/bot/bot.go):            *)
(* enqueuePlay, run as one goroutine per chat message, and the recursive   *)
(* driver playSound, over the shared map  queues : guild -> chan *Play.    *)
(* Every read and write of the map, every channel operation and every      *)
(* call of the voice transport that another goroutine can observe is a     *)
(* step of its own, so that the goroutines interleave as the Go scheduler  *)
(* lets them.                                                              *)
(***************************************************************************)
EXTENDS Integers, Sequences, FiniteSets, TLC

\* ---------------------------------------------------------------- bounds
\* goroutines of enqueuePlay alive at the same time
NumProcs == 3
\* chat messages (calls of enqueuePlay) over a whole behaviour of Spec
MaxReqs == 3
\* chat messages over a whole behaviour of SpecRace
MaxRace == 4
\* chat messages over a whole behaviour of SpecBurst
MaxBurst == 8

\* the most frames of a dca file that is loaded
MaxFrames == 3
\* the length of the payload of a big frame
BigLen == 32768
\* the most bytes of the other files of the sounds of a collection
MaxShort == 4

\* ------------------------------------------------------ program constants
MAX_QUEUE_SIZE == 6

Procs == 1 .. NumProcs
Reqs == 1 .. (IF MaxBurst > MaxReqs THEN MaxBurst ELSE MaxReqs)
Guilds == {1, 2}
Channels == {1, 2}

VARIABLES
    plays,    \* plays[r]: the Play built for the r-th message; its Next is written -r
    queues,   \* queues[g]: the channel the map holds for guild g, 0 when g has no entry
    chans,    \* chans[r]: the channel made by the enqueuePlay of message r: buf is every
              \* play sent on it so far, in order, of which the first rd were received
    vcs,      \* vcs[r]: the voice connection joined by the run of message r
    log,      \* log[r]: what that voice connection was used for, in order
    pc,       \* pc[p]: where goroutine p stands
    play,     \* play[p]: the local variable play of p's innermost playSound call
    stack,    \* stack[p]: the play of every suspended playSound call waiting at line 588
    vc,       \* vc[p]: the local variable vc, 0 for nil
    held,     \* held[p]: the channel a send or receive of p was evaluated to, 0 for nil
    dropped,  \* the plays enqueuePlay gave up at line 510, the queue being full
    stats,    \* stats[v]: the plays for which a run on connection v started trackSoundStats
    nilPlays, \* how many calls of enqueuePlay returned at line 502, createPlay giving nil
    crashed,  \* the Go runtime has ended the process with a fatal error
    call,     \* under SpecCreate: the arguments of the one call of enqueuePlay, with
              \* the numbers randomRange draws for it; <<>> under the other
              \* specifications, whose messages are built by Submit
    file,     \* the dca file Sound.Load is called for: whether it exists, and its bytes
    sc,       \* the SoundCollection whose Load is running: the collection, the files of
              \* its sounds, how many sounds the loop has reached, and soundRange
    snd,      \* the Sound being loaded: its buffer, the offset of the open file, and
              \* where Load stands or what it returned
    speaking, \* speaking[v]: what vc.Speaking was last called with on connection v
    OpusSend, \* OpusSend[v]: the frames sent on vc.OpusSend of connection v, in order
    frame,    \* frame[p]: how many frames the loop of Sound.Play has sent in goroutine p
    rcli,     \* whether a redis client was made at startup (rcli != nil)
    tracking, \* the plays whose trackSoundStats goroutine has not returned yet
    redis     \* the pipelines of commands redis has executed, in order

\* the state of Sound.Load, of the voice transport, and of the statistics
loader == <<file, snd, sc>>
voice == <<speaking, OpusSend, frame>>
tracker == <<rcli, tracking, redis>>

vars == <<plays, queues, chans, vcs, log, pc, play, stack, vc, held, dropped,
          stats, nilPlays, crashed, call, loader, voice, tracker>>

\* -------------------------------------------------------------- helpers
Abs(r) == IF r < 0 THEN -r ELSE r

\* Play.GuildID and Play.ChannelID; a Next play copies both from its parent
GuildID(r) == plays[Abs(r)].GuildID
ChannelID(r) == plays[Abs(r)].ChannelID
\* a playSound that never looks at play.Next
NextOf_None(r) == 0

\* Play.Next of play r, 0 for nil; a Next play has no Next
NextOf(r) == IF r > 0 /\ plays[r].Chained THEN -r ELSE 0

\* len(ch) of a channel: the plays sent and not yet received
ChanLen(c) == Len(chans[c].buf) - chans[c].rd

\* the plays waiting in a channel, oldest first
PendingOf(ch) == SubSeq(ch.buf, ch.rd + 1, Len(ch.buf))
Pending(c) == PendingOf(chans[c])

\* len(queues[g]): the length of a nil channel is 0
QueueLen(g) == IF queues[g] = 0 THEN 0 ELSE ChanLen(queues[g])

\* a queue made one slot too large
ChanCap_Wide == MAX_QUEUE_SIZE + 1

\* make(chan *Play, MAX_QUEUE_SIZE): the capacity of every guild queue
ChanCap == MAX_QUEUE_SIZE

\* guild and channel ids are opaque strings: they are numbered in the order in
\* which messages first name them
UsedGuilds == {plays[r].GuildID : r \in 1 .. Len(plays)}
UsedChannels(g) == {plays[r].ChannelID : r \in {x \in 1 .. Len(plays) : plays[x].GuildID = g}}
FreshOrUsed(S, used) == {x \in S : \A y \in S : y < x => y \in used}

\* return from the outermost playSound ends the goroutine; return from a call
\* made at line 588 resumes the caller at line 591 with the caller's play
Return(p) ==
    IF stack[p] = <<>>
    THEN /\ pc' = [pc EXCEPT ![p] = "idle"]
         /\ play' = [play EXCEPT ![p] = 0]
         /\ vc' = [vc EXCEPT ![p] = 0]
         /\ stack' = stack
    ELSE /\ pc' = [pc EXCEPT ![p] = "drain"]
         /\ play' = [play EXCEPT ![p] = Head(stack[p])]
         /\ stack' = [stack EXCEPT ![p] = Tail(@)]
         /\ vc' = vc

\* no Sound.Load is followed
NoLoad ==
    /\ file = [exists |-> FALSE, data |-> <<>>]
    /\ snd = [buffer |-> <<>>, off |-> 0, ret |-> "new"]
    /\ sc = [coll |-> <<>>, disk |-> <<>>, i |-> 0, soundRange |-> 0]

\* no connection has been used yet
Silent ==
    /\ speaking = [r \in Reqs |-> FALSE]
    /\ OpusSend = [r \in Reqs |-> <<>>]
    /\ frame = [p \in Procs |-> 0]

\* the bot was started without a redis address: rcli stays nil
NoRedis ==
    /\ rcli = FALSE
    /\ tracking = {}
    /\ redis = <<>>

Init ==
    /\ plays = <<>>
    /\ queues = [g \in Guilds |-> 0]
    /\ chans = [r \in Reqs |-> [buf |-> <<>>, rd |-> 0]]
    /\ vcs = [r \in Reqs |-> [ChannelID |-> 0, state |-> "none"]]
    /\ log = [r \in Reqs |-> <<>>]
    /\ pc = [p \in Procs |-> "idle"]
    /\ play = [p \in Procs |-> 0]
    /\ stack = [p \in Procs |-> <<>>]
    /\ vc = [p \in Procs |-> 0]
    /\ held = [p \in Procs |-> 0]
    /\ dropped = {}
    /\ stats = [r \in Reqs |-> <<>>]
    /\ nilPlays = 0
    /\ crashed = FALSE
    /\ call = <<>>
    /\ NoLoad /\ Silent /\ NoRedis

\* ------------------------------------------------------------ enqueuePlay
\* onMessageCreate: go enqueuePlay(...) in the first goroutine slot that is free,
\* then createPlay builds the Play: for a guild of G, a voice channel of C, and
\* with a Next (coll.ChainWith != nil) as K allows
Submit(p, G, C, K) ==
    /\ ~crashed
    /\ pc[p] = "idle"
    /\ \A q \in Procs : q < p => pc[q] # "idle"
    /\ \E g \in FreshOrUsed(G, UsedGuilds) :
       \E c \in FreshOrUsed(C, UsedChannels(g)) :
       \E chained \in K :
          plays' = Append(plays, [GuildID |-> g, ChannelID |-> c, Chained |-> chained])
    /\ play' = [play EXCEPT ![p] = Len(plays) + 1]
    /\ pc' = [pc EXCEPT ![p] = "exists"]
    /\ UNCHANGED <<queues, chans, vcs, log, stack, vc, held, dropped, stats, nilPlays, crashed, call, loader, voice, tracker>>

\* a message for any guild, from any voice channel, of any collection
CreatePlay(p) ==
    /\ Len(plays) < MaxReqs
    /\ Submit(p, Guilds, Channels, BOOLEAN)

\* messages for one guild, from one voice channel, of collections that are not
\* chained, arriving at any time
RacePlay(p) ==
    /\ Len(plays) < MaxRace
    /\ Submit(p, {1}, {1}, {FALSE})

\* a burst of such messages: all but the first arrive while the queue made for the
\* first is in the map
BurstPlay(p) ==
    /\ Len(plays) < MaxBurst
    /\ plays = <<>> \/ queues[1] = 1
    /\ Submit(p, {1}, {1}, {FALSE})

\* -------------------------------------------------------------- Sound.Load
\* a sequence of bytes is written as its runs of equal bytes: n times the byte b
Run(b, n) == [b |-> b, n |-> n]

\* the number of bytes of a byte sequence
RECURSIVE ByteLen(_)
ByteLen(f) == IF f = <<>> THEN 0 ELSE Head(f).n + ByteLen(Tail(f))

\* the first k bytes of a byte sequence, all of it if it is shorter
RECURSIVE Take(_, _)
Take(f, k) ==
    IF k = 0 \/ f = <<>> THEN <<>>
    ELSE IF Head(f).n <= k THEN <<Head(f)>> \o Take(Tail(f), k - Head(f).n)
    ELSE <<Run(Head(f).b, k)>>

\* what follows the first k bytes
RECURSIVE Drop(_, _)
Drop(f, k) ==
    IF k = 0 \/ f = <<>> THEN f
    ELSE IF Head(f).n <= k THEN Drop(Tail(f), k - Head(f).n)
    ELSE <<Run(Head(f).b, Head(f).n - k)>> \o Tail(f)

\* the i-th byte
RECURSIVE ByteAt(_, _)
ByteAt(f, i) == IF i <= Head(f).n THEN Head(f).b ELSE ByteAt(Tail(f), i - Head(f).n)

\* binary.Read(file, binary.LittleEndian, &opuslen) with var opuslen int16: the
\* two bytes make an unsigned 16-bit number, which the conversion to int16 wraps
Int16(lo, hi) ==
    LET u == (lo + 256 * hi) % 65536
    IN  IF u >= 32768 THEN u - 65536 ELSE u

\* file, err := os.Open(path); if err != nil { return err }
OpenFile ==
    /\ snd.ret = "new"
    /\ snd' = [snd EXCEPT !.ret = IF file.exists THEN "open" ELSE "err"]
    /\ UNCHANGED <<plays, queues, chans, vcs, log, pc, play, stack, vc, held, dropped,
                   stats, nilPlays, crashed, call, file, sc, voice, tracker>>

\* one turn of the loop of lines 401-427: read the length of the frame and return
\* nil on io.EOF and on io.ErrUnexpectedEOF, which is fewer than two bytes left;
\* make([]byte, opuslen), which panics when opuslen is negative; read opuslen
\* bytes and return the error when fewer are left; append the frame to s.buffer
ReadFrame ==
    /\ snd.ret = "open"
    /\ LET rest == Drop(file.data, snd.off)
           left == ByteLen(rest)
           opuslen == Int16(ByteAt(rest, 1), ByteAt(rest, 2))
       IN  snd' = IF left < 2
                  THEN [snd EXCEPT !.ret = "nil", !.off = @ + left]
                  ELSE IF opuslen < 0
                  THEN [snd EXCEPT !.ret = "panic", !.off = @ + 2]
                  ELSE IF left - 2 < opuslen
                  THEN [snd EXCEPT !.ret = "err", !.off = @ + left]
                  ELSE [snd EXCEPT !.buffer = Append(@, Take(Drop(rest, 2), opuslen)),
                                   !.off = @ + 2 + opuslen]
    /\ UNCHANGED <<plays, queues, chans, vcs, log, pc, play, stack, vc, held, dropped,
                   stats, nilPlays, crashed, call, file, sc, voice, tracker>>

\* the payloads of the frames of the files that are loaded: none, the two bytes
\* 0xAA 0xBB, and BigLen bytes
Payloads == {<<>>, <<Run(170, 1), Run(187, 1)>>, <<Run(7, BigLen)>>}

\* the sequences of at most MaxFrames frames
FrameSeqs == UNION {[1 .. n -> Payloads] : n \in 0 .. MaxFrames}

\* byte sequence f followed by g
Cat(f, g) ==
    IF f = <<>> THEN g
    ELSE IF g = <<>> THEN f
    ELSE IF f[Len(f)].b = Head(g).b
    THEN SubSeq(f, 1, Len(f) - 1) \o <<Run(Head(g).b, f[Len(f)].n + Head(g).n)>> \o Tail(g)
    ELSE f \o g

\* a dca file of the frames fs: for each frame its length as an unsigned 16-bit
\* number, low byte first, and then its payload
RECURSIVE Encode(_)
Encode(fs) ==
    IF fs = <<>> THEN <<>>
    ELSE LET len == ByteLen(Head(fs))
         IN  Cat(Cat(Cat(<<Run(len % 256, 1)>>, <<Run((len \div 256) % 256, 1)>>), Head(fs)),
                 Encode(Tail(fs)))

\* the files: every dca file of such frames, and every file that is the beginning
\* of one without a big frame
Files ==
    {Encode(fs) : fs \in FrameSeqs}
    \cup UNION {{Take(Encode(fs), k) : k \in 0 .. ByteLen(Encode(fs))} :
                   fs \in {gs \in FrameSeqs : ByteLen(Encode(gs)) < BigLen}}

\* main calls Load once for every sound, before the bot goes online: the file of
\* the sound is one of Files, or does not exist
InitLoad ==
    /\ plays = <<>>
    /\ queues = [g \in Guilds |-> 0]
    /\ chans = [r \in Reqs |-> [buf |-> <<>>, rd |-> 0]]
    /\ vcs = [r \in Reqs |-> [ChannelID |-> 0, state |-> "none"]]
    /\ log = [r \in Reqs |-> <<>>]
    /\ pc = [p \in Procs |-> "idle"]
    /\ play = [p \in Procs |-> 0]
    /\ stack = [p \in Procs |-> <<>>]
    /\ vc = [p \in Procs |-> 0]
    /\ held = [p \in Procs |-> 0]
    /\ dropped = {}
    /\ stats = [r \in Reqs |-> <<>>]
    /\ nilPlays = 0
    /\ crashed = FALSE
    /\ call = <<>>
    /\ file \in {[exists |-> FALSE, data |-> <<>>]} \cup {[exists |-> TRUE, data |-> d] : d \in Files}
    /\ snd = [buffer |-> <<>>, off |-> 0, ret |-> "new"]
    /\ sc = [coll |-> <<>>, disk |-> <<>>, i |-> 0, soundRange |-> 0]
    /\ Silent /\ NoRedis

\* ------------------------------------------------------------- createPlay
\* a nil pointer is the empty sequence, a pointer to x is <<x>>
Nil == <<>>

\* two of the collections, with two of their sounds each and the weights of the
\* sounds scaled down; KHALED is the collection that is chained, with AIRHORN.
\* buffer is what Load left in the sound: a few frames, two of them equal, and
\* none for a sound whose file is missing
AIRHORN ==
    [Prefix |-> "airhorn",
     Sounds |-> <<[Name |-> "default", Weight |-> 2,
                   buffer |-> <<<<Run(170, 1), Run(187, 1)>>, <<>>, <<Run(170, 1), Run(187, 1)>>>>],
                  [Name |-> "reverb", Weight |-> 1, buffer |-> <<>>]>>,
     ChainWith |-> Nil]

KHALED ==
    [Prefix |-> "another",
     Sounds |-> <<[Name |-> "one", Weight |-> 1, buffer |-> <<<<Run(1, 1)>>>>],
                  [Name |-> "one_classic", Weight |-> 1,
                   buffer |-> <<<<Run(2, 1)>>, <<Run(3, 2)>>>>]>>,
     ChainWith |-> <<AIRHORN>>]

COLLECTIONS == {AIRHORN, KHALED}

\* SoundCollection.Load, which main calls once for every collection: soundRange
\* is the sum of the weights
RECURSIVE SumWeights(_)
SumWeights(sounds) ==
    IF sounds = <<>> THEN 0 ELSE Head(sounds).Weight + SumWeights(Tail(sounds))

soundRange(coll) == SumWeights(coll.Sounds)

\* the numbers randomRange(min, max) can return: rand.Intn(max-min) + min
randomRange(min, max) == min .. (max - 1)

\* a loop that compares the number with <= for <
RECURSIVE RandomLoop_Lax(_, _, _)
RandomLoop_Lax(sounds, i, number) ==
    IF sounds = <<>> THEN Nil
    ELSE IF number <= i + Head(sounds).Weight THEN <<Head(sounds)>>
    ELSE RandomLoop_Lax(Tail(sounds), i + Head(sounds).Weight, number)

\* the loop of SoundCollection.Random over the sounds not yet visited, i being
\* the sum of the weights visited so far; nil when the loop runs out
RECURSIVE RandomLoop(_, _, _)
RandomLoop(sounds, i, number) ==
    IF sounds = <<>> THEN Nil
    ELSE IF number < i + Head(sounds).Weight THEN <<Head(sounds)>>
    ELSE RandomLoop(Tail(sounds), i + Head(sounds).Weight, number)

\* a Random whose running sum falls one short of the weights
Random_Short(coll, number) == RandomLoop(coll.Sounds, -1, number)

\* SoundCollection.Random, number being what randomRange(0, soundRange) returned
Random(coll, number) == RandomLoop(coll.Sounds, 0, number)

\* discord.State.Channel(id): the channel when the state knows it, nil when not
StateChannel(id) == IF id \in Channels THEN <<id>> ELSE Nil

\* getCurrentVoiceChannel: the channel of the first voice state of the guild that
\* belongs to the user, nil when there is none
RECURSIVE FindVoiceState(_, _)
FindVoiceState(states, user) ==
    IF states = <<>> THEN Nil
    ELSE IF Head(states).UserID = user THEN StateChannel(Head(states).ChannelID)
    ELSE FindVoiceState(Tail(states), user)

\* a lookup that takes the first voice state of the guild, whoever it belongs to
getCurrentVoiceChannel_First(user, guild) ==
    IF guild.VoiceStates = <<>> THEN Nil ELSE StateChannel(Head(guild.VoiceStates).ChannelID)

getCurrentVoiceChannel(user, guild) == FindVoiceState(guild.VoiceStates, user)

\* a createPlay that never sets Forced to false
createPlay_ForcedAlways(user, guild, coll, sound, n1, n2) ==
    LET channel == getCurrentVoiceChannel(user, guild)
        first == IF sound = Nil THEN Random(coll, n1) ELSE sound
        next == IF coll.ChainWith # Nil
                THEN <<[GuildID |-> guild.ID, ChannelID |-> channel[1], UserID |-> user,
                        Sound |-> Random(coll.ChainWith[1], n2), Forced |-> TRUE,
                        Next |-> Nil]>>
                ELSE Nil
    IN  IF channel = Nil THEN Nil
        ELSE <<[GuildID |-> guild.ID, ChannelID |-> channel[1], UserID |-> user,
                Sound |-> first, Forced |-> TRUE, Next |-> next,
                Chained |-> next # Nil]>>

\* a createPlay that draws the sound of the Next play from coll itself
createPlay_NextFromColl(user, guild, coll, sound, n1, n2) ==
    LET channel == getCurrentVoiceChannel(user, guild)
        first == IF sound = Nil THEN Random(coll, n1) ELSE sound
        next == IF coll.ChainWith # Nil
                THEN <<[GuildID |-> guild.ID, ChannelID |-> channel[1], UserID |-> user,
                        Sound |-> Random(coll, n2), Forced |-> sound # Nil, Next |-> Nil]>>
                ELSE Nil
    IN  IF channel = Nil THEN Nil
        ELSE <<[GuildID |-> guild.ID, ChannelID |-> channel[1], UserID |-> user,
                Sound |-> first, Forced |-> sound # Nil, Next |-> next,
                Chained |-> next # Nil]>>

\* createPlay(user, guild, coll, sound), n1 and n2 being the numbers the two calls
\* of Random draw: nil without a voice channel, otherwise the Play, whose Forced
\* tells whether a sound was passed and whose Next is built when coll.ChainWith
\* != nil (Chained says so to the driver)
createPlay(user, guild, coll, sound, n1, n2) ==
    LET channel == getCurrentVoiceChannel(user, guild)
        first == IF sound = Nil THEN Random(coll, n1) ELSE sound
        next == IF coll.ChainWith # Nil
                THEN <<[GuildID |-> guild.ID, ChannelID |-> channel[1], UserID |-> user,
                        Sound |-> Random(coll.ChainWith[1], n2), Forced |-> sound # Nil,
                        Next |-> Nil]>>
                ELSE Nil
    IN  IF channel = Nil THEN Nil
        ELSE <<[GuildID |-> guild.ID, ChannelID |-> channel[1], UserID |-> user,
                Sound |-> first, Forced |-> sound # Nil, Next |-> next,
                Chained |-> next # Nil]>>

\* the users that send messages, and what a voice state of a guild can say: a
\* user in a channel, which the state may not know
Users == {1, 2}
VoiceStateSet == [UserID : Users, ChannelID : Channels \cup {Cardinality(Channels) + 1}]
\* the most voice states a guild has
MaxVoiceStates == 2
VoiceStateSeqs == UNION {[1 .. n -> VoiceStateSet] : n \in 0 .. MaxVoiceStates}

\* the calls onMessageCreate can make: any user, any guild, a collection, and
\* either no sound or a sound of that collection; n1 and n2 are drawn only when
\* createPlay calls Random
CallsOf(c) ==
    {[user |-> u, guild |-> [ID |-> g, VoiceStates |-> vs], coll |-> c, sound |-> s,
      n1 |-> n1, n2 |-> n2] :
        u \in Users, g \in Guilds, vs \in VoiceStateSeqs,
        s \in {Nil} \cup {<<c.Sounds[i]>> : i \in DOMAIN c.Sounds},
        n1 \in randomRange(0, soundRange(c)),
        n2 \in IF c.ChainWith = Nil THEN {0}
               ELSE randomRange(0, soundRange(c.ChainWith[1]))}

Calls == UNION {CallsOf(c) : c \in COLLECTIONS}

\* one call of enqueuePlay, with any arguments, in a process that has handled no
\* message yet
InitCreate ==
    /\ plays = <<>>
    /\ queues = [g \in Guilds |-> 0]
    /\ chans = [r \in Reqs |-> [buf |-> <<>>, rd |-> 0]]
    /\ vcs = [r \in Reqs |-> [ChannelID |-> 0, state |-> "none"]]
    /\ log = [r \in Reqs |-> <<>>]
    /\ pc = [p \in Procs |-> "idle"]
    /\ play = [p \in Procs |-> 0]
    /\ stack = [p \in Procs |-> <<>>]
    /\ vc = [p \in Procs |-> 0]
    /\ held = [p \in Procs |-> 0]
    /\ dropped = {}
    /\ stats = [r \in Reqs |-> <<>>]
    /\ nilPlays = 0
    /\ crashed = FALSE
    /\ call \in {c \in Calls : c.sound # Nil => c.n1 = 0}
    /\ NoLoad /\ Silent /\ NoRedis

\* go enqueuePlay(user, guild, coll, sound): play := createPlay(...), and return
\* when play == nil
EnqueuePlay(p) ==
    /\ ~crashed
    /\ call # <<>>
    /\ plays = <<>> /\ nilPlays = 0
    /\ pc[p] = "idle"
    /\ \A q \in Procs : q < p => pc[q] # "idle"
    /\ LET made == createPlay(call.user, call.guild, call.coll, call.sound, call.n1, call.n2)
       IN  IF made = Nil
           THEN /\ nilPlays' = nilPlays + 1
                /\ UNCHANGED <<plays, play, pc>>
           ELSE /\ plays' = Append(plays, made[1])
                /\ play' = [play EXCEPT ![p] = Len(plays) + 1]
                /\ pc' = [pc EXCEPT ![p] = "exists"]
                /\ UNCHANGED nilPlays
    /\ UNCHANGED <<queues, chans, vcs, log, stack, vc, held, dropped, stats, crashed, call, loader, voice, tracker>>

\* _, exists := queues[guild.ID]
CheckExists(p) ==
    /\ pc[p] = "exists"
    /\ pc' = [pc EXCEPT ![p] = IF queues[GuildID(play[p])] # 0 THEN "len" ELSE "make"]
    /\ UNCHANGED <<plays, queues, chans, vcs, log, play, stack, vc, held, dropped, stats, nilPlays, crashed, call, loader, voice, tracker>>

\* the length check written with <= for <
CheckLen_Lax(p) ==
    /\ pc[p] = "len"
    /\ IF QueueLen(GuildID(play[p])) <= MAX_QUEUE_SIZE
       THEN /\ pc' = [pc EXCEPT ![p] = "send"]
            /\ UNCHANGED <<play, dropped>>
       ELSE /\ pc' = [pc EXCEPT ![p] = "idle"]
            /\ play' = [play EXCEPT ![p] = 0]
            /\ dropped' = dropped \cup {play[p]}
    /\ UNCHANGED <<plays, queues, chans, vcs, log, stack, vc, held, stats, nilPlays, crashed, call, loader, voice, tracker>>

\* if len(queues[guild.ID]) < MAX_QUEUE_SIZE; otherwise the play is dropped
CheckLen(p) ==
    /\ pc[p] = "len"
    /\ IF QueueLen(GuildID(play[p])) < MAX_QUEUE_SIZE
       THEN /\ pc' = [pc EXCEPT ![p] = "send"]
            /\ UNCHANGED <<play, dropped>>
       ELSE /\ pc' = [pc EXCEPT ![p] = "idle"]
            /\ play' = [play EXCEPT ![p] = 0]
            /\ dropped' = dropped \cup {play[p]}
    /\ UNCHANGED <<plays, queues, chans, vcs, log, stack, vc, held, stats, nilPlays, crashed, call, loader, voice, tracker>>

\* queues[guild.ID] <- play: the channel operand is evaluated
SendEval(p) ==
    /\ pc[p] = "send"
    /\ held' = [held EXCEPT ![p] = queues[GuildID(play[p])]]
    /\ pc' = [pc EXCEPT ![p] = "sending"]
    /\ UNCHANGED <<plays, queues, chans, vcs, log, play, stack, vc, dropped, stats, nilPlays, crashed, call, loader, voice, tracker>>

\* a send that puts the play at the head of the queue
SendCommit_Front(p) ==
    /\ pc[p] = "sending"
    /\ held[p] # 0
    /\ ChanLen(held[p]) < ChanCap
    /\ chans' = [chans EXCEPT ![held[p]].buf =
                     SubSeq(@, 1, chans[held[p]].rd) \o <<play[p]>> \o Pending(held[p])]
    /\ pc' = [pc EXCEPT ![p] = "idle"]
    /\ play' = [play EXCEPT ![p] = 0]
    /\ held' = [held EXCEPT ![p] = 0]
    /\ UNCHANGED <<plays, queues, vcs, log, stack, vc, dropped, stats, nilPlays, crashed, call, loader, voice, tracker>>

\* queues[guild.ID] <- play: the send, which waits while the channel is full
\* and for ever on a nil channel
SendCommit(p) ==
    /\ pc[p] = "sending"
    /\ held[p] # 0
    /\ ChanLen(held[p]) < ChanCap
    /\ chans' = [chans EXCEPT ![held[p]].buf = Append(@, play[p])]
    /\ pc' = [pc EXCEPT ![p] = "idle"]
    /\ play' = [play EXCEPT ![p] = 0]
    /\ held' = [held EXCEPT ![p] = 0]
    /\ UNCHANGED <<plays, queues, vcs, log, stack, vc, dropped, stats, nilPlays, crashed, call, loader, voice, tracker>>

\* an enqueuePlay that also sends its play on the queue it has just made
MakeQueue_Enqueue(p) ==
    /\ pc[p] = "make"
    /\ queues' = [queues EXCEPT ![GuildID(play[p])] = play[p]]
    /\ chans' = [chans EXCEPT ![play[p]].buf = Append(@, play[p])]
    /\ pc' = [pc EXCEPT ![p] = "join"]
    /\ UNCHANGED <<plays, vcs, log, play, stack, vc, held, dropped, stats, nilPlays, crashed, call, loader, voice, tracker>>

\* queues[guild.ID] = make(chan *Play, MAX_QUEUE_SIZE); playSound(play, nil)
MakeQueue(p) ==
    /\ pc[p] = "make"
    /\ queues' = [queues EXCEPT ![GuildID(play[p])] = play[p]]
    /\ pc' = [pc EXCEPT ![p] = "join"]
    /\ UNCHANGED <<plays, chans, vcs, log, play, stack, vc, held, dropped, stats, nilPlays, crashed, call, loader, voice, tracker>>

\* -------------------------------------------------------------- playSound
\* vc == nil: discord.ChannelVoiceJoin returns a connection
JoinOk(p) ==
    /\ pc[p] = "join"
    /\ vcs' = [vcs EXCEPT ![play[p]] = [ChannelID |-> ChannelID(play[p]), state |-> "open"]]
    /\ vc' = [vc EXCEPT ![p] = play[p]]
    /\ pc' = [pc EXCEPT ![p] = "play"]
    /\ UNCHANGED <<plays, queues, chans, log, play, stack, held, dropped, stats, nilPlays, crashed, call, loader, voice, tracker>>

\* a failed join that leaves the entry in the map
JoinFail_KeepEntry(p) ==
    /\ pc[p] = "join"
    /\ vcs' = [vcs EXCEPT ![play[p]].state = "failed"]
    /\ pc' = [pc EXCEPT ![p] = "idle"]
    /\ play' = [play EXCEPT ![p] = 0]
    /\ UNCHANGED <<plays, queues, chans, log, stack, vc, held, dropped, stats, nilPlays, crashed, call, loader, voice, tracker>>

\* vc == nil: discord.ChannelVoiceJoin fails; delete(queues, play.GuildID); return err
JoinFail(p) ==
    /\ pc[p] = "join"
    /\ vcs' = [vcs EXCEPT ![play[p]].state = "failed"]
    /\ queues' = [queues EXCEPT ![GuildID(play[p])] = 0]
    /\ pc' = [pc EXCEPT ![p] = "idle"]
    /\ play' = [play EXCEPT ![p] = 0]
    /\ UNCHANGED <<plays, chans, log, stack, vc, held, dropped, stats, nilPlays, crashed, call, loader, voice, tracker>>

\* a playSound that never changes the channel of the connection
Played_NoChange(p) == <<[ev |-> "play", r |-> play[p]]>>

\* what lines 571-584 do to the connection: vc.ChangeChannel if the connection is
\* in another channel than the play's, then play.Sound.Play(vc)
Played(p) ==
    (IF vcs[vc[p]].ChannelID # ChannelID(play[p])
     THEN <<[ev |-> "change", r |-> play[p]]>> ELSE <<>>)
    \o <<[ev |-> "play", r |-> play[p]]>>

\* the Play that r stands for: the Play of message r, or the Next of that of -r
PlayOf(r) == IF r > 0 THEN plays[r] ELSE plays[-r].Next[1]

\* play.Sound.buffer; the plays that Submit builds carry no sound, and nothing is
\* sent for them
BufferOf(r) ==
    IF "Sound" \in DOMAIN plays[Abs(r)] THEN PlayOf(r).Sound[1].buffer ELSE <<>>

\* lines 587-589 and the return to them: when play.Next != nil,
\* playSound(play.Next, vc); else on to line 591
ChainOrDrain(p) ==
    IF NextOf(play[p]) # 0
    THEN /\ stack' = [stack EXCEPT ![p] = <<play[p]>> \o @]
         /\ play' = [play EXCEPT ![p] = NextOf(@)]
         /\ pc' = [pc EXCEPT ![p] = "play"]
    ELSE /\ pc' = [pc EXCEPT ![p] = "drain"]
         /\ UNCHANGED <<play, stack>>

\* lines 571-589 in one step: change channel, go trackSoundStats(play), which
\* returns at once when rcli is nil, play the clip, and, when play.Next != nil,
\* playSound(play.Next, vc)
PlayClip(p) ==
    /\ pc[p] = "play"
    /\ vcs' = [vcs EXCEPT ![vc[p]].ChannelID = ChannelID(play[p])]
    /\ stats' = [stats EXCEPT ![vc[p]] = Append(@, play[p])]
    /\ log' = [log EXCEPT ![vc[p]] = @ \o Played(p)]
    /\ OpusSend' = [OpusSend EXCEPT ![vc[p]] = @ \o BufferOf(play[p])]
    /\ ChainOrDrain(p)
    /\ UNCHANGED <<plays, queues, chans, vc, held, dropped, nilPlays, crashed, call,
                   loader, speaking, frame, tracker>>

\* ------------------------------------- playSound, Sound.Play, step by step
\* a playSound that starts no trackSoundStats
ChangeAndTrack_Untracked(p) ==
    /\ pc[p] = "play"
    /\ vcs' = [vcs EXCEPT ![vc[p]].ChannelID = ChannelID(play[p])]
    /\ log' = [log EXCEPT ![vc[p]] =
                   @ \o SubSeq(Played(p), 1, Len(Played(p)) - 1)]
    /\ pc' = [pc EXCEPT ![p] = "preroll"]
    /\ UNCHANGED <<plays, queues, chans, play, stack, vc, held, dropped, stats, nilPlays,
                   crashed, call, loader, voice, tracker>>

\* lines 571-578: vc.ChangeChannel if the connection is in another channel, and
\* go trackSoundStats(play)
ChangeAndTrack(p) ==
    /\ pc[p] = "play"
    /\ vcs' = [vcs EXCEPT ![vc[p]].ChannelID = ChannelID(play[p])]
    /\ log' = [log EXCEPT ![vc[p]] =
                   @ \o SubSeq(Played(p), 1, Len(Played(p)) - 1)]
    /\ stats' = [stats EXCEPT ![vc[p]] = Append(@, play[p])]
    /\ tracking' = tracking \cup {play[p]}
    /\ pc' = [pc EXCEPT ![p] = "preroll"]
    /\ UNCHANGED <<plays, queues, chans, play, stack, vc, held, dropped, nilPlays,
                   crashed, call, loader, voice, rcli, redis>>

\* lines 581-584 and 432: time.Sleep, play.Sound.Play(vc): vc.Speaking(true)
Speak(p) ==
    /\ pc[p] = "preroll"
    /\ speaking' = [speaking EXCEPT ![vc[p]] = TRUE]
    /\ frame' = [frame EXCEPT ![p] = 0]
    /\ pc' = [pc EXCEPT ![p] = "frames"]
    /\ UNCHANGED <<plays, queues, chans, vcs, log, play, stack, vc, held, dropped, stats,
                   nilPlays, crashed, call, loader, OpusSend, tracker>>

\* lines 435-437: vc.OpusSend <- buff, for the next buff of s.buffer
SendFrame(p) ==
    /\ pc[p] = "frames"
    /\ frame[p] < Len(BufferOf(play[p]))
    /\ OpusSend' = [OpusSend EXCEPT ![vc[p]] = Append(@, BufferOf(play[p])[frame[p] + 1])]
    /\ frame' = [frame EXCEPT ![p] = @ + 1]
    /\ UNCHANGED <<plays, queues, chans, vcs, log, pc, play, stack, vc, held, dropped, stats,
                   nilPlays, crashed, call, loader, speaking, tracker>>

\* a Sound.Play that returns without vc.Speaking(false)
EndPlay_StillSpeaking(p) ==
    /\ pc[p] = "frames"
    /\ frame[p] = Len(BufferOf(play[p]))
    /\ frame' = [frame EXCEPT ![p] = 0]
    /\ log' = [log EXCEPT ![vc[p]] = Append(@, [ev |-> "play", r |-> play[p]])]
    /\ ChainOrDrain(p)
    /\ UNCHANGED <<plays, queues, chans, vcs, vc, held, dropped, stats, nilPlays,
                   crashed, call, loader, speaking, OpusSend, tracker>>

\* the end of the loop of Sound.Play: the deferred vc.Speaking(false) of line 433,
\* return, and lines 587-589
EndPlay(p) ==
    /\ pc[p] = "frames"
    /\ frame[p] = Len(BufferOf(play[p]))
    /\ speaking' = [speaking EXCEPT ![vc[p]] = FALSE]
    /\ frame' = [frame EXCEPT ![p] = 0]
    /\ log' = [log EXCEPT ![vc[p]] = Append(@, [ev |-> "play", r |-> play[p]])]
    /\ ChainOrDrain(p)
    /\ UNCHANGED <<plays, queues, chans, vcs, vc, held, dropped, stats, nilPlays,
                   crashed, call, loader, OpusSend, tracker>>

\* --------------------------------------------------------- trackSoundStats
\* a redis command: INCR key, or SADD key member
Incr(key) == [op |-> "INCR", key |-> key, member |-> Nil]
SAdd(key, member) == [op |-> "SADD", key |-> key, member |-> <<member>>]

\* the commands lines 524-543 put in the pipeline for the Play r stands for; a key
\* is written as the parts that Sprintf joins with colons
Pipeline(r) ==
    LET pl == PlayOf(r)
        base == <<"airhorn", IF pl.Forced THEN "f" ELSE "a">>
        name == pl.Sound[1].Name
    IN  <<Incr(<<"airhorn", "total">>),
          Incr(base \o <<"total">>),
          Incr(base \o <<"sound", name>>),
          Incr(base \o <<"user", pl.UserID, "sound", name>>),
          Incr(base \o <<"guild", pl.GuildID, "sound", name>>),
          Incr(base \o <<"guild", pl.GuildID, "chan", pl.ChannelID, "sound", name>>),
          SAdd(base \o <<"users">>, pl.UserID),
          SAdd(base \o <<"guilds">>, pl.GuildID),
          SAdd(base \o <<"channels">>, pl.ChannelID)>>

\* the goroutine of trackSoundStats(play) runs: it returns at once when rcli is
\* nil, else redis executes its pipeline
TrackSoundStats(r) ==
    /\ r \in tracking
    /\ tracking' = tracking \ {r}
    /\ redis' = IF rcli THEN Append(redis, [cmds |-> Pipeline(r), err |-> FALSE]) ELSE redis
    /\ UNCHANGED <<plays, queues, chans, vcs, log, pc, play, stack, vc, held, dropped, stats,
                   nilPlays, crashed, call, loader, voice, rcli>>

\* rcli.Pipelined returns an error, which lines 546-550 log: nothing was executed
TrackFailed(r) ==
    /\ r \in tracking
    /\ rcli
    /\ tracking' = tracking \ {r}
    /\ redis' = Append(redis, [cmds |-> <<>>, err |-> TRUE])
    /\ UNCHANGED <<plays, queues, chans, vcs, log, pc, play, stack, vc, held, dropped, stats,
                   nilPlays, crashed, call, loader, voice, rcli>>

\* one message, as under SpecCreate, to a bot started with or without redis
InitPlay ==
    /\ plays = <<>>
    /\ queues = [g \in Guilds |-> 0]
    /\ chans = [r \in Reqs |-> [buf |-> <<>>, rd |-> 0]]
    /\ vcs = [r \in Reqs |-> [ChannelID |-> 0, state |-> "none"]]
    /\ log = [r \in Reqs |-> <<>>]
    /\ pc = [p \in Procs |-> "idle"]
    /\ play = [p \in Procs |-> 0]
    /\ stack = [p \in Procs |-> <<>>]
    /\ vc = [p \in Procs |-> 0]
    /\ held = [p \in Procs |-> 0]
    /\ dropped = {}
    /\ stats = [r \in Reqs |-> <<>>]
    /\ nilPlays = 0
    /\ crashed = FALSE
    /\ call \in {c \in Calls : c.sound # Nil => c.n1 = 0}
    /\ NoLoad /\ Silent
    /\ rcli \in BOOLEAN
    /\ tracking = {}
    /\ redis = <<>>

\* if len(queues[play.GuildID]) > 0
Drain(p) ==
    /\ pc[p] = "drain"
    /\ pc' = [pc EXCEPT ![p] = IF QueueLen(GuildID(play[p])) > 0 THEN "recv" ELSE "hold"]
    /\ UNCHANGED <<plays, queues, chans, vcs, log, play, stack, vc, held, dropped, stats, nilPlays, crashed, call, loader, voice, tracker>>

\* play := <-queues[play.GuildID]: the channel operand is evaluated
RecvEval(p) ==
    /\ pc[p] = "recv"
    /\ held' = [held EXCEPT ![p] = queues[GuildID(play[p])]]
    /\ pc' = [pc EXCEPT ![p] = "receiving"]
    /\ UNCHANGED <<plays, queues, chans, vcs, log, play, stack, vc, dropped, stats, nilPlays, crashed, call, loader, voice, tracker>>

\* a receive that leaves the play in the queue
RecvCommit_Peek(p) ==
    /\ pc[p] = "receiving"
    /\ held[p] # 0
    /\ ChanLen(held[p]) > 0
    /\ play' = [play EXCEPT ![p] = Head(Pending(held[p]))]
    /\ held' = [held EXCEPT ![p] = 0]
    /\ pc' = [pc EXCEPT ![p] = "play"]
    /\ UNCHANGED <<plays, queues, chans, vcs, log, stack, vc, dropped, stats, nilPlays, crashed, call, loader, voice, tracker>>

\* a driver that calls playSound(play, nil) on the play it received
RecvCommit_Rejoin(p) ==
    /\ pc[p] = "receiving"
    /\ held[p] # 0
    /\ ChanLen(held[p]) > 0
    /\ play' = [play EXCEPT ![p] = Head(Pending(held[p]))]
    /\ chans' = [chans EXCEPT ![held[p]].rd = @ + 1]
    /\ held' = [held EXCEPT ![p] = 0]
    /\ vc' = [vc EXCEPT ![p] = 0]
    /\ pc' = [pc EXCEPT ![p] = "join"]
    /\ UNCHANGED <<plays, queues, vcs, log, stack, dropped, stats, nilPlays, crashed, call, loader, voice, tracker>>

\* play := <-queues[play.GuildID]: the receive, which waits while the channel is
\* empty and for ever on a nil channel; then playSound(play, vc)
RecvCommit(p) ==
    /\ pc[p] = "receiving"
    /\ held[p] # 0
    /\ ChanLen(held[p]) > 0
    /\ play' = [play EXCEPT ![p] = Head(Pending(held[p]))]
    /\ chans' = [chans EXCEPT ![held[p]].rd = @ + 1]
    /\ held' = [held EXCEPT ![p] = 0]
    /\ pc' = [pc EXCEPT ![p] = "play"]
    /\ UNCHANGED <<plays, queues, vcs, log, stack, vc, dropped, stats, nilPlays, crashed, call, loader, voice, tracker>>

\* a driver that forgets to delete the entry
DeleteQueue_Keep(p) ==
    /\ pc[p] = "hold"
    /\ pc' = [pc EXCEPT ![p] = "disconnect"]
    /\ UNCHANGED <<plays, queues, chans, vcs, log, play, stack, vc, held, dropped, stats, nilPlays, crashed, call, loader, voice, tracker>>

\* time.Sleep(PartDelay); delete(queues, play.GuildID)
DeleteQueue(p) ==
    /\ pc[p] = "hold"
    /\ queues' = [queues EXCEPT ![GuildID(play[p])] = 0]
    /\ pc' = [pc EXCEPT ![p] = "disconnect"]
    /\ UNCHANGED <<plays, chans, vcs, log, play, stack, vc, held, dropped, stats, nilPlays, crashed, call, loader, voice, tracker>>

\* vc.Disconnect(); return nil
Disconnect(p) ==
    /\ pc[p] = "disconnect"
    /\ vcs' = [vcs EXCEPT ![vc[p]].state = "closed"]
    /\ log' = [log EXCEPT ![vc[p]] = Append(@, [ev |-> "disconnect", r |-> play[p]])]
    /\ Return(p)
    /\ UNCHANGED <<plays, queues, chans, held, dropped, stats, nilPlays, crashed, call, loader, voice, tracker>>

\* ---------------------------------------------------- SoundCollection.Load
\* a Load that counts the weight of a sound only when its file exists
LoadSound_CountFound ==
    /\ sc.coll # Nil
    /\ snd.ret \in {"none", "nil", "err"}
    /\ sc.i < Len(sc.coll[1].Sounds)
    /\ sc' = [sc EXCEPT !.i = @ + 1,
                        !.soundRange = IF sc.disk[sc.i + 1].exists
                                       THEN @ + sc.coll[1].Sounds[sc.i + 1].Weight ELSE @]
    /\ file' = sc.disk[sc.i + 1]
    /\ snd' = [buffer |-> <<>>, off |-> 0, ret |-> "new"]
    /\ UNCHANGED <<plays, queues, chans, vcs, log, pc, play, stack, vc, held, dropped,
                   stats, nilPlays, crashed, call, voice, tracker>>

\* lines 362-364, for the next sound of sc.Sounds, once the Load of the sound
\* before it has returned, with nil or with an error that is not looked at:
\* sc.soundRange += sound.Weight; sound.Load(sc)
LoadSound ==
    /\ sc.coll # Nil
    /\ snd.ret \in {"none", "nil", "err"}
    /\ sc.i < Len(sc.coll[1].Sounds)
    /\ sc' = [sc EXCEPT !.i = @ + 1,
                        !.soundRange = @ + sc.coll[1].Sounds[sc.i + 1].Weight]
    /\ file' = sc.disk[sc.i + 1]
    /\ snd' = [buffer |-> <<>>, off |-> 0, ret |-> "new"]
    /\ UNCHANGED <<plays, queues, chans, vcs, log, pc, play, stack, vc, held, dropped,
                   stats, nilPlays, crashed, call, voice, tracker>>

\* the files a sound of a collection may have: the short ones of Files, one with a
\* big frame, or none
CollFiles ==
    {[exists |-> FALSE, data |-> <<>>]}
    \cup {[exists |-> TRUE, data |-> d] :
             d \in {f \in Files : ByteLen(f) <= MaxShort \/ ByteLen(f) = BigLen + 2}}

\* main calls coll.Load() once for each of COLLECTIONS, whose soundRange is zero
\* until then
InitColl ==
    /\ plays = <<>>
    /\ queues = [g \in Guilds |-> 0]
    /\ chans = [r \in Reqs |-> [buf |-> <<>>, rd |-> 0]]
    /\ vcs = [r \in Reqs |-> [ChannelID |-> 0, state |-> "none"]]
    /\ log = [r \in Reqs |-> <<>>]
    /\ pc = [p \in Procs |-> "idle"]
    /\ play = [p \in Procs |-> 0]
    /\ stack = [p \in Procs |-> <<>>]
    /\ vc = [p \in Procs |-> 0]
    /\ held = [p \in Procs |-> 0]
    /\ dropped = {}
    /\ stats = [r \in Reqs |-> <<>>]
    /\ nilPlays = 0
    /\ crashed = FALSE
    /\ call = <<>>
    /\ file = [exists |-> FALSE, data |-> <<>>]
    /\ snd = [buffer |-> <<>>, off |-> 0, ret |-> "none"]
    /\ sc \in UNION {{[coll |-> <<c>>, disk |-> d, i |-> 0, soundRange |-> 0] :
                         d \in [1 .. Len(c.Sounds) -> CollFiles]} : c \in COLLECTIONS}
    /\ Silent /\ NoRedis

\* ------------------------------------------------------------ the queues map
\* the steps whose next access to the map queues is a write (the insert of line
\* 514, the deletes of lines 566 and 600) and those whose next access is a read
\* (lines 507, 510, 511, 592, 593)
MapWriters == {"make", "join", "hold"}
MapReaders == {"exists", "len", "send", "drain", "recv"}

\* the map is written by one goroutine while another reads or writes it, with
\* nothing that orders the two accesses: the Go runtime may end the process with
\* "fatal error: concurrent map writes" or "concurrent map read and map write"
Crash ==
    /\ ~crashed
    /\ \E p, q \in Procs :
          /\ p # q
          /\ pc[p] \in MapWriters
          /\ pc[q] \in MapWriters \cup MapReaders
    /\ crashed' = TRUE
    /\ UNCHANGED <<plays, queues, chans, vcs, log, pc, play, stack, vc, held, dropped,
                   stats, nilPlays, call, loader, voice, tracker>>

\* a step of goroutine p of a process that is alive
Step(p) ==
    /\ ~crashed
    /\ \/ CheckExists(p)
       \/ CheckLen(p)
       \/ SendEval(p)
       \/ SendCommit(p)
       \/ MakeQueue(p)
       \/ JoinOk(p)
       \/ JoinFail(p)
       \/ PlayClip(p)
       \/ Drain(p)
       \/ RecvEval(p)
       \/ RecvCommit(p)
       \/ DeleteQueue(p)
       \/ Disconnect(p)

Next == Crash \/ \E p \in Procs : CreatePlay(p) \/ Step(p)

Spec == Init /\ [][Next]_vars

NextRace == Crash \/ \E p \in Procs : RacePlay(p) \/ Step(p)

SpecRace == Init /\ [][NextRace]_vars

NextBurst == Crash \/ \E p \in Procs : BurstPlay(p) \/ Step(p)

SpecBurst == Init /\ [][NextBurst]_vars

\* the run of a single message: nothing is ever sent on or received from a queue
NextCreate ==
    \E p \in Procs :
        \/ EnqueuePlay(p)
        \/ ~crashed /\ CheckExists(p)
        \/ ~crashed /\ MakeQueue(p)
        \/ ~crashed /\ JoinOk(p)
        \/ ~crashed /\ JoinFail(p)
        \/ ~crashed /\ PlayClip(p)
        \/ ~crashed /\ Drain(p)
        \/ ~crashed /\ DeleteQueue(p)
        \/ ~crashed /\ Disconnect(p)

SpecCreate == InitCreate /\ [][NextCreate]_vars

\* one message, with the steps of playSound and Sound.Play taken one by one and
\* the goroutines of trackSoundStats running when they are scheduled
NextPlay ==
    \/ \E p \in Procs :
          \/ EnqueuePlay(p)
          \/ ~crashed /\ CheckExists(p)
          \/ ~crashed /\ MakeQueue(p)
          \/ ~crashed /\ JoinOk(p)
          \/ ~crashed /\ JoinFail(p)
          \/ ~crashed /\ ChangeAndTrack(p)
          \/ ~crashed /\ Speak(p)
          \/ ~crashed /\ SendFrame(p)
          \/ ~crashed /\ EndPlay(p)
          \/ ~crashed /\ Drain(p)
          \/ ~crashed /\ DeleteQueue(p)
          \/ ~crashed /\ Disconnect(p)
    \/ \E r \in tracking : TrackSoundStats(r) \/ TrackFailed(r)

SpecPlay == InitPlay /\ [][NextPlay]_vars

\* one call of SoundCollection.Load
NextColl == LoadSound \/ OpenFile \/ ReadFrame

SpecColl == InitColl /\ [][NextColl]_vars

\* one call of Sound.Load
NextLoad == OpenFile \/ ReadFrame

SpecLoad == InitLoad /\ [][NextLoad]_vars

\* the scheduler lets every goroutine that can take a step take one in the end,
\* and a voice join, a delay and the sending of frames all come to an end
SpecFair == Spec /\ \A p \in Procs : WF_vars(Step(p))

\* the same scheduler, for messages that race for one guild
SpecRaceFair == SpecRace /\ \A p \in Procs : WF_vars(Step(p))

TypeOK ==
    /\ \A g \in Guilds : queues[g] \in 0 .. Len(plays)
    /\ \A p \in Procs : vc[p] \in 0 .. Len(plays)

\* ------------------------------------------------------- what the claims speak of
\* the steps of a playSound call tree that enqueuePlay started with vc = nil
RunPcs == {"join", "play", "drain", "recv", "receiving", "hold", "disconnect"}

\* the goroutines inside a driver run for guild g
RunsOf(g) == {p \in Procs : pc[p] \in RunPcs /\ GuildID(play[p]) = g}

\* the goroutines that saw no entry for guild g and have not made one yet
AboutToStart(g) == {p \in Procs : pc[p] = "make" /\ GuildID(play[p]) = g}

\* the clips played over voice connection v, in order
PlaysOf(v) == SelectSeq(log[v], LAMBDA e : e.ev = "play")

\* play r has been streamed over some voice connection
HasPlayed(r) == \E v \in Reqs : \E i \in DOMAIN log[v] : log[v][i] = [ev |-> "play", r |-> r]

\* play r has been sent on some channel
WasSent(r) == \E c \in Reqs : \E i \in DOMAIN chans[c].buf : chans[c].buf[i] = r

\* C1: for every guild, at most one driver run is in flight at any time.
C1_SingleFlight == \A g \in Guilds : Cardinality(RunsOf(g)) <= 1

\* C2: the map holds an entry for a guild exactly when a driver run is active or
\* about to start for it: an entry means a run in flight or about to start, and a
\* run in flight, at any of its steps, means an entry.
C2_EntryIffRun ==
    \A g \in Guilds :
        /\ queues[g] # 0 => RunsOf(g) \cup AboutToStart(g) # {}
        /\ RunsOf(g) # {} => queues[g] # 0

\* C3: of two plays sent on the same guild queue, the one sent later is not played
\* while the one sent earlier has not been played.
C3_Fifo ==
    \A c \in Reqs : \A i, j \in DOMAIN chans[c].buf :
        i < j /\ HasPlayed(chans[c].buf[j]) => HasPlayed(chans[c].buf[i])

C5_DropStep ==
    \A p \in Procs :
        (pc[p] = "len" /\ pc'[p] # "len" /\ QueueLen(GuildID(play[p])) >= MAX_QUEUE_SIZE)
        => /\ pc'[p] = "idle"
           /\ play[p] \in dropped'
           /\ <<queues, chans, vcs, log>>' = <<queues, chans, vcs, log>>
           /\ \A q \in Procs \ {p} : pc'[q] = pc[q]

C5_DroppedGone ==
    \A r \in dropped :
        /\ ~HasPlayed(r)
        /\ ~WasSent(r)
        /\ \A p \in Procs : play[p] # r

C5_DropWhenFull == []C5_DroppedGone /\ [][C5_DropStep]_vars

\* seven messages during the first play: six queued, the seventh given up
C5_SeventhDropped ==
    /\ log[1] = <<[ev |-> "play", r |-> 1]>>
    /\ Pending(1) = <<2, 3, 4, 5, 6, 7>>
    /\ dropped = {8}

\* C6: an enqueuePlay that finds no entry puts an empty queue in the map and starts
\* a run with vc = nil on its play; that play is never sent on a queue, and it is
\* the first clip played over the connection the run joins.
C6_MakeStep ==
    \A p \in Procs :
        (pc[p] = "make" /\ pc'[p] # "make")
        => /\ pc'[p] = "join" /\ vc'[p] = 0 /\ play'[p] = play[p]
           /\ queues'[GuildID(play[p])] # 0
           /\ PendingOf(chans'[queues'[GuildID(play[p])]]) = <<>>

C6_RunPlayFirst ==
    /\ \A v \in Reqs : PlaysOf(v) # <<>> => PlaysOf(v)[1].r = v
    /\ \A p \in Procs : pc[p] \in {"make", "join"} => ~WasSent(play[p])
    /\ \A v \in Reqs : vcs[v].state # "none" => ~WasSent(v)

C6_HandedToDriver == []C6_RunPlayFirst /\ [][C6_MakeStep]_vars

\* a run that played its own play and then one sent on its queue
C6_ThenQueued ==
    \E v \in Reqs :
        /\ Len(PlaysOf(v)) >= 2
        /\ PlaysOf(v)[1].r = v
        /\ \E i \in DOMAIN chans[v].buf : chans[v].buf[i] = PlaysOf(v)[2].r

\* C7: an enqueuePlay that finds an entry with fewer than MAX_QUEUE_SIZE plays
\* changes nothing but the queue it sends on, at whose tail it puts its play: the
\* map, the other queues, the connections and the other goroutines stay as they
\* were, and it starts no run.
C7_SenderStep ==
    \A p \in Procs :
        (/\ pc'[p] # pc[p]
         /\ \/ pc[p] = "exists" /\ queues[GuildID(play[p])] # 0
            \/ pc[p] = "len" /\ QueueLen(GuildID(play[p])) < MAX_QUEUE_SIZE
            \/ pc[p] \in {"send", "sending"})
        => /\ <<queues, vcs, log>>' = <<queues, vcs, log>>
           /\ \A q \in Procs \ {p} : pc'[q] = pc[q]
           /\ pc'[p] \notin RunPcs \cup {"make"}
           /\ IF pc[p] = "sending"
              THEN /\ \A c \in Reqs \ {held[p]} : chans'[c] = chans[c]
                   /\ PendingOf(chans'[held[p]]) = Append(Pending(held[p]), play[p])
              ELSE chans' = chans

C7_AppendOnly == [][C7_SenderStep]_vars

C7_TwoQueued == \E c \in Reqs : Len(Pending(c)) >= 2

\* C8: over a voice connection, the clip of a play that has a Next is followed at
\* once by the clip of that Next, with no other clip, channel change or
\* disconnect between the two, and the clip of a Next is played nowhere else.
C8_ChainBackToBack ==
    \A v \in Reqs : \A i \in DOMAIN log[v] :
        LET e == log[v][i] IN
        /\ (e.ev = "play" /\ e.r > 0 /\ plays[e.r].Chained)
           => IF i < Len(log[v])
              THEN log[v][i + 1] = [ev |-> "play", r |-> -e.r]
              ELSE \E p \in Procs : vc[p] = v /\ pc[p] = "play" /\ play[p] = -e.r
        /\ (e.ev = "play" /\ e.r < 0)
           => i > 1 /\ log[v][i - 1] = [ev |-> "play", r |-> -e.r]

C8_ChainPlayed ==
    \E v \in Reqs : \E i \in DOMAIN log[v] :
        /\ i < Len(log[v])
        /\ log[v][i].ev = "play" /\ log[v][i].r > 0 /\ plays[log[v][i].r].Chained
        /\ log[v][i + 1] = [ev |-> "play", r |-> -log[v][i].r]

\* C9: when a run that found its queue empty deletes the entry the guild has none,
\* no entry is left behind once no run is in flight for the guild, and a run
\* started by enqueuePlay has no connection until it joins one that was never
\* joined before.
C9_IdleStep ==
    \A p \in Procs :
        /\ (pc[p] = "hold" /\ pc'[p] # "hold") => queues'[GuildID(play[p])] = 0
        /\ (pc[p] = "exists" /\ pc'[p] # "exists" /\ queues[GuildID(play[p])] = 0)
           => pc'[p] = "make"
        /\ (pc[p] = "join" /\ pc'[p] = "play")
           => vc[p] = 0 /\ vc'[p] # 0 /\ vcs[vc'[p]].state = "none"
              /\ vcs'[vc'[p]].state = "open"

C9_NoStaleEntry ==
    /\ \A g \in Guilds : queues[g] # 0 => RunsOf(g) # {}
    /\ \A p \in Procs : pc[p] \in {"make", "join"} => vc[p] = 0

C9_IdleTransition == []C9_NoStaleEntry /\ [][C9_IdleStep]_vars

\* a guild whose first run is over and whose second run has joined
C9_SecondRun ==
    \E r1, r2 \in 1 .. Len(plays) :
        /\ r1 < r2 /\ plays[r1].GuildID = plays[r2].GuildID
        /\ vcs[r1].state = "closed" /\ vcs[r2].state = "open"
        /\ \A p \in Procs : vc[p] # r1

\* C10: no play, and no Next of a play, is streamed twice, over any connections.
C10_PlayedOnce ==
    \A v, w \in Reqs : \A i \in DOMAIN log[v] : \A j \in DOMAIN log[w] :
        (log[v][i].ev = "play" /\ log[w][j] = log[v][i]) => (v = w /\ i = j)

\* a run that played a chained pair and a play received from its queue
C10_ThreeClips == \E v \in Reqs : Len(PlaysOf(v)) >= 3

\* play r was sent on the queue of a run whose voice join succeeded
SentToJoinedRun(r) ==
    \E c \in Reqs :
        /\ vcs[c].state \in {"open", "closed"}
        /\ \E i \in DOMAIN chans[c].buf : chans[c].buf[i] = r

\* C11: every play sent on the queue of a run whose voice join succeeded is played
\* in the end, unless the process dies, also a play sent during the hold delay of
\* the run, after it saw the queue empty and before it deletes the entry.
C11_EventuallyPlayed ==
    \A r \in 1 .. MaxReqs : SentToJoinedRun(r) ~> (HasPlayed(r) \/ crashed)
\* C12: a run whose voice join fails ends at that step: the goroutine returns, the
\* guild has no entry, nothing is played or recorded, and the join is not tried
\* again; the connection of a failed join is never used, its play is never
\* played, and a message that then finds no entry starts a new run.
C12_FailStep ==
    \A p \in Procs :
        /\ (pc[p] = "join" /\ pc'[p] \notin {"join", "play"})
           => /\ pc'[p] = "idle" /\ stack'[p] = <<>> /\ vc'[p] = 0
              /\ queues'[GuildID(play[p])] = 0
              /\ vcs'[play[p]].state = "failed"
              /\ <<log, stats, chans>>' = <<log, stats, chans>>
              /\ \A q \in Procs \ {p} : pc'[q] = pc[q]
        /\ \A v \in Reqs : vcs[v].state = "failed" => vcs'[v] = vcs[v]
        /\ (pc[p] = "exists" /\ pc'[p] # "exists" /\ queues[GuildID(play[p])] = 0)
           => pc'[p] = "make"

C12_FailedUnused ==
    \A v \in Reqs :
        vcs[v].state = "failed"
        => /\ log[v] = <<>> /\ stats[v] = <<>>
           /\ ~HasPlayed(v) /\ ~HasPlayed(-v)
           /\ \A p \in Procs : vc[p] # v /\ play[p] # v

C12_JoinFailureEndsRun == []C12_FailedUnused /\ [][C12_FailStep]_vars

\* a guild in which a join failed and a later message started a run that joined
C12_RunAfterFailure ==
    \E r1, r2 \in 1 .. Len(plays) :
        /\ r1 < r2 /\ plays[r1].GuildID = plays[r2].GuildID
        /\ vcs[r1].state = "failed" /\ vcs[r2].state = "open"
        /\ PlaysOf(r2) # <<>>
\* C13: a play sent on the queue that a run made is never played when the voice
\* join of that run fails.
C13_AbandonedOnFailure ==
    \A v \in Reqs :
        vcs[v].state = "failed"
        => \A i \in DOMAIN chans[v].buf : ~HasPlayed(chans[v].buf[i])
\* C14: a run calls the voice join once, as its first step and for the play that
\* started it; from then on the goroutine keeps the connection that call gave it,
\* and every play it receives and every Next is played over that connection.
C14_JoinStep ==
    /\ \A v \in Reqs :
           (vcs'[v].state # vcs[v].state /\ vcs[v].state # "open")
           => /\ vcs[v].state = "none"
              /\ \E p \in Procs :
                    /\ pc[p] = "join" /\ play[p] = v /\ vc[p] = 0 /\ stack[p] = <<>>
                    /\ pc'[p] = "idle" \/ vc'[p] = v
    /\ \A p \in Procs :
           /\ vc[p] # 0 => vc'[p] = vc[p] \/ (pc'[p] = "idle" /\ stack[p] = <<>>)
           /\ (pc'[p] = "join" /\ pc[p] # "join") => pc[p] = "make"
           /\ (pc'[p] = "play" /\ pc[p] # "join") => (vc[p] # 0 /\ vc'[p] = vc[p])

C14_OneSession ==
    /\ \A p \in Procs :
           /\ pc[p] \in RunPcs \ {"join"} => (vc[p] # 0 /\ vcs[vc[p]].state # "none")
           /\ pc[p] = "join" => (vc[p] = 0 /\ stack[p] = <<>> /\ ~WasSent(play[p]))
    /\ \A v \in Reqs : vcs[v].state # "none" => ~WasSent(v)

C14_JoinedOnce == []C14_OneSession /\ [][C14_JoinStep]_vars

\* a connection over which its run has played a Next and a play it received
C14_SharedSession ==
    \E v \in Reqs :
        /\ vcs[v].state = "open"
        /\ \E i \in DOMAIN log[v] : log[v][i].ev = "play" /\ log[v][i].r < 0
        /\ \E i \in DOMAIN log[v] :
              log[v][i].ev = "play" /\ log[v][i].r > 0 /\ WasSent(log[v][i].r)
\* the voice connections of guild g that were joined and not yet disconnected
OpenSessions(g) ==
    {v \in 1 .. Len(plays) : plays[v].GuildID = g /\ vcs[v].state = "open"}

\* C15: a guild has at most one open voice connection at any time: a run never
\* joins while a connection joined earlier for the guild is not yet disconnected.
C15_OneOpenSession == \A g \in Guilds : Cardinality(OpenSessions(g)) <= 1
\* C16: a run executes delete(queues, play.GuildID) at most once: whenever a driver
\* executes it after finding the queue empty, the run has not yet been through
\* the delete and disconnect of lines 600-601, so its connection is still open.
C16_DeleteStep ==
    \A p \in Procs :
        (pc[p] = "hold" /\ pc'[p] = "disconnect") => vcs[vc[p]].state = "open"

C16_DeletedOnce == [][C16_DeleteStep]_vars
\* C17: an enqueuePlay that found an entry never waits: when it comes to its send,
\* the channel it sends on is not nil and has room.
C17_SendNeverWaits ==
    \A p \in Procs : pc[p] = "sending" => (held[p] # 0 /\ ChanLen(held[p]) < ChanCap)
\* goroutine q waits on a channel: a send on a full or nil channel, a receive on an
\* empty or nil one
WaitsOnChannel(q) ==
    \/ pc[q] = "sending" /\ (held[q] = 0 \/ ChanLen(held[q]) >= ChanCap)
    \/ pc[q] = "receiving" /\ (held[q] = 0 \/ ChanLen(held[q]) = 0)

\* the goroutines at work for guild g
WorkingFor(g) == {p \in Procs : pc[p] # "idle" /\ GuildID(play[p]) = g}

\* C18: guilds are isolated. Every step is the step of one guild and leaves the
\* entry, the queues, the connections and the goroutines of every other guild as
\* they were; and a goroutine that does not wait on the queue of its own guild
\* can take its next step whatever the goroutines of other guilds do.
C18_FrameStep ==
    \E a \in Guilds : \A b \in Guilds \ {a} :
        /\ queues'[b] = queues[b]
        /\ \A r \in 1 .. Len(plays) :
              plays[r].GuildID = b
              => <<chans[r], vcs[r], log[r], stats[r]>>' = <<chans[r], vcs[r], log[r], stats[r]>>
        /\ \A q \in WorkingFor(b) :
              <<pc[q], play[q], stack[q], vc[q], held[q]>>'
                  = <<pc[q], play[q], stack[q], vc[q], held[q]>>

C18_CanRun ==
    \A q \in Procs :
        (/\ pc[q] # "idle"
         /\ ~WaitsOnChannel(q)
         /\ WorkingFor(GuildID(play[q])) = {q})
        => ENABLED Step(q)

C18_GuildsIsolated == []C18_CanRun /\ [][C18_FrameStep]_vars
\* the user of the call has no voice state in the guild of the call
NoVoicePresence ==
    \A i \in DOMAIN call.guild.VoiceStates : call.guild.VoiceStates[i].UserID # call.user

\* C19: when the user has no voice state in the guild, enqueuePlay does nothing:
\* no Play is built, the map stays empty, no queue is made, no goroutine goes
\* on to a join, nothing is played and no statistics are recorded.
C19_NoVoiceNoPlay ==
    NoVoicePresence
    => /\ plays = <<>>
       /\ \A g \in Guilds : queues[g] = 0
       /\ \A r \in Reqs :
             /\ chans[r].buf = <<>>
             /\ vcs[r].state = "none"
             /\ log[r] = <<>>
             /\ stats[r] = <<>>
       /\ \A p \in Procs : pc[p] = "idle" /\ play[p] = 0

\* enqueuePlay has returned for a user without voice state, in a guild where
\* another user has one
C19_ReturnedNil ==
    /\ NoVoicePresence
    /\ call.guild.VoiceStates # <<>>
    /\ nilPlays = 1

\* C20: the Play has a Next exactly when the collection has a ChainWith; the Next
\* has the guild, channel, user and Forced of the Play, its sound is a sound of
\* the ChainWith collection, also when the sound of the Play was passed in, and
\* it has no Next.
C20_ChainedNext ==
    \A r \in DOMAIN plays :
        /\ plays[r].Forced = (call.sound # Nil)
        /\ (plays[r].Next # Nil) = (call.coll.ChainWith # Nil)
        /\ plays[r].Chained = (plays[r].Next # Nil)
        /\ plays[r].Next # Nil
           => LET next == plays[r].Next[1] IN
              /\ next.GuildID = plays[r].GuildID /\ next.GuildID = call.guild.ID
              /\ next.ChannelID = plays[r].ChannelID
              /\ next.UserID = plays[r].UserID /\ next.UserID = call.user
              /\ next.Forced = plays[r].Forced
              /\ next.Next = Nil
              /\ \E i \in DOMAIN call.coll.ChainWith[1].Sounds :
                    next.Sound = <<call.coll.ChainWith[1].Sounds[i]>>

\* the Play of a named sound of the chained collection, with its Next, played
C20_ForcedChain ==
    /\ plays # <<>>
    /\ plays[1].Forced /\ plays[1].Next # Nil
    /\ HasPlayed(1) /\ HasPlayed(-1)
\* the sounds of a collection
SoundsOf(coll) == {coll.Sounds[i] : i \in DOMAIN coll.Sounds}

\* C21: the Play has Forced = true and the sound that was passed exactly when a
\* sound was passed to createPlay, and Forced = false and a sound of the
\* collection exactly when none was passed.
C21_ForcedIffNamed ==
    \A r \in DOMAIN plays :
        /\ plays[r].Forced = (call.sound # Nil)
        /\ call.sound # Nil => plays[r].Sound = call.sound
        /\ call.sound = Nil
           => \E s \in SoundsOf(call.coll) : plays[r].Sound = <<s>>

\* a Play whose sound was drawn, the draw giving the second sound of the collection
C21_RandomSecond ==
    /\ plays # <<>>
    /\ call.sound = Nil
    /\ ~plays[1].Forced
    /\ plays[1].Sound = <<call.coll.Sounds[2]>>

\* the sum of the weights of the first n sounds of a collection
CumWeight(coll, n) == SumWeights(SubSeq(coll.Sounds, 1, n))

\* the first sound, in list order, whose cumulative weight exceeds draw d
FirstExceeding(coll, d) ==
    coll.Sounds[CHOOSE i \in DOMAIN coll.Sounds :
                    /\ CumWeight(coll, i) > d
                    /\ \A j \in 1 .. (i - 1) : CumWeight(coll, j) <= d]

\* C22: for a draw d in 0 .. soundRange-1, Random returns the first sound whose
\* cumulative weight exceeds d: draw 0 gives the first sound, draw soundRange-1
\* the last, and of the soundRange draws exactly Weight give a sound.
C22_WeightedRandom ==
    /\ \A r \in DOMAIN plays :
          /\ call.sound = Nil => plays[r].Sound = <<FirstExceeding(call.coll, call.n1)>>
          /\ plays[r].Next # Nil
             => plays[r].Next[1].Sound = <<FirstExceeding(call.coll.ChainWith[1], call.n2)>>
    /\ \A c \in COLLECTIONS :
          /\ Random(c, 0) = <<c.Sounds[1]>>
          /\ Random(c, soundRange(c) - 1) = <<c.Sounds[Len(c.Sounds)]>>
          /\ \A i \in DOMAIN c.Sounds :
                Cardinality({d \in randomRange(0, soundRange(c)) : Random(c, d) = <<c.Sounds[i]>>})
                    = c.Sounds[i].Weight

\* the last draw of a collection whose sounds differ in weight, giving its last sound
C22_LastDraw ==
    /\ plays # <<>>
    /\ call.sound = Nil
    /\ call.coll = AIRHORN
    /\ call.n1 = soundRange(AIRHORN) - 1
    /\ plays[1].Sound = <<AIRHORN.Sounds[Len(AIRHORN.Sounds)]>>
\* C25: the race between the check of line 507 and the insert of line 514 starts
\* at most one extra run: a guild never has more than two runs active at once.
C25_AtMostTwoRuns == \A g \in Guilds : Cardinality(RunsOf(g)) <= 2

\* goroutine p is about to write the map while q is about to read or write it
MapConflict(p, q) ==
    /\ p # q
    /\ pc[p] \in MapWriters
    /\ pc[q] \in MapWriters \cup MapReaders

\* C26: the accesses to the map never end the process: no goroutine writes the
\* map while another reads or writes it, and the runtime never stops the process.
C26_NoMapRace ==
    /\ ~crashed
    /\ \A p, q \in Procs : ~MapConflict(p, q)

\* the run that joined voice connection v is over: the connection is closed and
\* no goroutine is inside the run any more
RunEnded(v) == vcs[v].state = "closed" /\ \A p \in Procs : vc[p] # v

\* C27: every run whose voice join succeeded comes to its end, the entry deleted
\* and the connection closed, unless the process dies.
C27_RunTerminates ==
    \A v \in 1 .. MaxReqs : (vcs[v].state = "open") ~> (RunEnded(v) \/ crashed)
\* the events of log[v] before position i that moved the connection
ChangesBefore(v, i) == {j \in 1 .. (i - 1) : log[v][j].ev = "change"}

\* the voice channel connection v is in when the event at position i of its log
\* happens: that of the last change before it, or else the channel that was joined
ChannelAt(v, i) ==
    IF ChangesBefore(v, i) = {} THEN ChannelID(v)
    ELSE ChannelID(log[v][CHOOSE j \in ChangesBefore(v, i) :
                              \A k \in ChangesBefore(v, i) : k <= j].r)

\* C28: a run changes the channel of its connection exactly when the connection
\* is in another channel than the play's, just before it plays, so that every
\* clip is played in the channel of its own play.
C28_PlayedInOwnChannel ==
    \A v \in Reqs :
        /\ \A i \in DOMAIN log[v] :
              /\ log[v][i].ev = "play" => ChannelAt(v, i) = ChannelID(log[v][i].r)
              /\ log[v][i].ev = "change"
                 => /\ ChannelAt(v, i) # ChannelID(log[v][i].r)
                    /\ i < Len(log[v])
                    /\ log[v][i + 1] = [ev |-> "play", r |-> log[v][i].r]
        /\ vcs[v].state \in {"open", "closed"}
           => vcs[v].ChannelID = ChannelAt(v, Len(log[v]) + 1)

\* a connection that played in the channel it joined, was moved for a play of
\* another channel and played it, and played a third clip without being moved
C28_MovedOnce ==
    \E v \in Reqs :
        /\ Len(log[v]) >= 4
        /\ log[v][1].ev = "play"
        /\ log[v][2].ev = "change"
        /\ log[v][3].ev = "play"
        /\ log[v][4].ev = "play"
\* the file being loaded is the dca file of the frames fs
IsFileOf(fs) == file.exists /\ file.data = Encode(fs)

\* C23: Load of a dca file of frames yields exactly these frames, in order and
\* with their payloads unchanged, also frames of length zero and frames of 32768
\* bytes or more: it does not fail, and returns with s.buffer equal to the frames.
C23_LoadsEveryFrame ==
    \A fs \in FrameSeqs :
        IsFileOf(fs)
        => /\ snd.ret \notin {"err", "panic"}
           /\ Len(snd.buffer) <= Len(fs)
           /\ snd.buffer = SubSeq(fs, 1, Len(snd.buffer))
           /\ snd.ret = "nil" => snd.buffer = fs

\* C24: Load returns nil only when the file exists and ends where a frame ends;
\* a file that is missing, or ends after one byte of a length, or in the middle
\* of a payload, makes Load return an error.
C24_NilOnlyWhenClean ==
    snd.ret = "nil" => \E fs \in FrameSeqs : IsFileOf(fs)
\* the goroutines inside Sound.Play on connection v
Streaming(v) == {p \in Procs : vc[p] = v /\ pc[p] = "frames"}

\* the frames of the clips of a sequence of play events, one clip after the other
RECURSIVE FramesOf(_)
FramesOf(events) ==
    IF events = <<>> THEN <<>> ELSE BufferOf(Head(events).r) \o FramesOf(Tail(events))

\* the frames of its clip that a goroutine inside Sound.Play on v has sent so far
FramesUnderWay(v) ==
    IF Streaming(v) = {} THEN <<>>
    ELSE LET p == CHOOSE q \in Streaming(v) : TRUE
         IN  SubSeq(BufferOf(play[p]), 1, frame[p])

C29_Bracketed ==
    \A v \in Reqs :
        /\ speaking[v] = (Streaming(v) # {})
        /\ OpusSend[v] = FramesOf(PlaysOf(v)) \o FramesUnderWay(v)

C29_Step ==
    \A v \in Reqs :
        /\ OpusSend'[v] # OpusSend[v] => speaking[v] /\ speaking'[v]
        /\ speaking'[v] # speaking[v] => OpusSend'[v] = OpusSend[v]
        /\ (speaking[v] /\ ~speaking'[v])
           => \E p \in Streaming(v) : frame[p] = Len(BufferOf(play[p]))

\* C29: Sound.Play sets speaking to true, then sends every frame of the clip once
\* and in order, then sets speaking to false: what a connection was sent is the
\* frames of its clips one clip after the other, frames are sent only while
\* speaking is true, and speaking is false whenever no clip is being streamed.
C29_SpeakingBrackets == []C29_Bracketed /\ [][C29_Step]_vars

\* the three frames of "default", one of them empty and two equal, were sent, and
\* speaking is false again
C29_ClipSent ==
    /\ HasPlayed(1)
    /\ ~speaking[1]
    /\ OpusSend[1] = AIRHORN.Sounds[1].buffer

\* the goroutines on connection v between go trackSoundStats and the end of the clip
UnderWay(v) == {p \in Procs : vc[p] = v /\ pc[p] \in {"preroll", "frames"}}

\* the plays for which trackSoundStats was started
Tracked == UNION {{stats[v][i] : i \in DOMAIN stats[v]} : v \in Reqs}

\* the pipeline counts a play of the Play r stands for: its forced flag, guild,
\* channel, user and the name of its sound
Carries(cmds, r) ==
    LET pl == PlayOf(r)
        base == <<"airhorn", IF pl.Forced THEN "f" ELSE "a">>
        name == pl.Sound[1].Name
        keys == {cmds[i].key : i \in DOMAIN cmds}
    IN  /\ base \o <<"guild", pl.GuildID, "chan", pl.ChannelID, "sound", name>> \in keys
        /\ base \o <<"user", pl.UserID, "sound", name>> \in keys

\* the pipelines redis executed for r
RecordsOf(r) == {i \in DOMAIN redis : ~redis[i].err /\ Carries(redis[i].cmds, r)}

C30_OnePerClip ==
    /\ \A v \in Reqs :
          stats[v] = [i \in 1 .. Len(PlaysOf(v)) |-> PlaysOf(v)[i].r]
                     \o (IF UnderWay(v) = {} THEN <<>>
                         ELSE <<play[CHOOSE p \in UnderWay(v) : TRUE]>>)
    /\ tracking \subseteq Tracked
    /\ IF rcli THEN Len(redis) + Cardinality(tracking) = Cardinality(Tracked)
               ELSE redis = <<>>
    /\ \A r \in Tracked : Cardinality(RecordsOf(r)) <= 1
    /\ \A i \in DOMAIN redis :
          ~redis[i].err => \E r \in Tracked \ tracking : i \in RecordsOf(r)

C30_Step ==
    (redis' # redis \/ (tracking' # tracking /\ tracking' \subseteq tracking))
    => UNCHANGED <<plays, queues, chans, vcs, log, pc, play, stack, vc, held, dropped,
                   stats, nilPlays, crashed, call, loader, voice>>

\* C30: trackSoundStats is started once for every clip that is played, for the
\* chained follow-up on its own, before the clip is streamed; the record redis
\* gets carries the guild, channel, user, sound name and forced flag of the play;
\* and whether the record is written, fails or is absent changes nothing of what
\* the driver plays or of the queues.
C30_OneRecordPerClip == []C30_OnePerClip /\ [][C30_Step]_vars

\* a chained play: both clips were played and redis has a record for each
C30_TwoRecords ==
    /\ HasPlayed(1) /\ HasPlayed(-1)
    /\ Len(redis) = 2
    /\ RecordsOf(1) # {} /\ RecordsOf(-1) # {}
\* how often vc.Disconnect() was called on connection v
Disconnects(v) == Len(SelectSeq(log[v], LAMBDA e : e.ev = "disconnect"))

\* C33: a voice connection that was joined is disconnected once: vc.Disconnect()
\* is never called twice on the same connection, also when the run plays a
\* chained play.
C33_DisconnectedOnce == \A v \in Reqs : Disconnects(v) <= 1

C34_NoUse ==
    \A v \in Reqs : \A i, j \in DOMAIN log[v] :
        (i < j /\ log[v][i].ev = "disconnect") => log[v][j].ev = "disconnect"

C34_Step ==
    \A p \in Procs :
        (pc[p] = "receiving" /\ pc'[p] # "receiving") => vcs[vc[p]].state = "open"

\* C34: once a run has disconnected its voice connection it does nothing more
\* with it: no clip is played and no channel change made on a connection after
\* its disconnect, and the run receives no further play from a queue.
C34_NothingAfterDisconnect == []C34_NoUse /\ [][C34_Step]_vars

C35_Step ==
    \A p \in Procs :
        /\ (pc[p] = "hold" /\ pc'[p] = "disconnect")
           => queues[GuildID(play[p])] \in {0, vc[p]}
        /\ (pc[p] = "receiving" /\ pc'[p] # "receiving") => held[p] = vc[p]

\* C35: a run deletes only the entry that was made for it and receives only from
\* the channel of that entry: the entry it deletes is never one made for a newer
\* run of the guild, nor is the channel it receives from.
C35_OwnQueueOnly == [][C35_Step]_vars

\* C36: a run never waits in the receive of line 593: whenever it receives, the
\* channel it receives from is not nil and holds a play.
C36_NeverWaitsToReceive ==
    \A p \in Procs : pc[p] = "receiving" => held[p] # 0 /\ ChanLen(held[p]) > 0
\* C32: a sound whose Load failed, the file missing or a read failing part of
\* the way through it, has an empty buffer, so that playing it sends no frame.
C32_FailedLoadIsEmpty == snd.ret = "err" => snd.buffer = <<>>
\* SoundCollection.Load has returned: the loop has reached every sound and the
\* Load of the last one has returned
Loaded ==
    /\ sc.coll # Nil
    /\ sc.i = Len(sc.coll[1].Sounds)
    /\ snd.ret \in {"nil", "err"}

\* C31: after SoundCollection.Load, soundRange is the sum of the weights of all
\* the sounds of the collection, whether or not each of them loaded; while the
\* loop runs it is the sum of the weights of the sounds reached so far.
C31_SoundRangeIsSum ==
    sc.coll # Nil
    => /\ sc.soundRange = CumWeight(sc.coll[1], sc.i)
       /\ Loaded => sc.soundRange = soundRange(sc.coll[1])

\* Load has returned for a collection whose first sound has no file and whose
\* last sound has a file that ends in the middle of a frame
C31_LoadedWithFailures ==
    /\ Loaded
    /\ ~sc.disk[1].exists
    /\ snd.ret = "err" /\ file.exists
\* C37: every Play that reaches playSound, and every chained Next, has a sound:
\* for each collection, once loaded, Random returns one of its sounds and never
\* nil, whatever number is drawn.
C37_AlwaysASound ==
    /\ \A r \in DOMAIN plays :
          /\ plays[r].Sound # Nil
          /\ call.sound = Nil => plays[r].Sound[1] \in SoundsOf(call.coll)
          /\ plays[r].Next # Nil
             => /\ plays[r].Next[1].Sound # Nil
                /\ plays[r].Next[1].Sound[1] \in SoundsOf(call.coll.ChainWith[1])
    /\ \A c \in COLLECTIONS : \A d \in randomRange(0, soundRange(c)) :
          /\ Random(c, d) # Nil
          /\ Random(c, d)[1] \in SoundsOf(c)

\* a Play and its chained Next, both with drawn sounds, the highest numbers
\* having been drawn, were played
C37_DrawnAndPlayed ==
    /\ HasPlayed(1) /\ HasPlayed(-1)
    /\ call.sound = Nil
    /\ call.n1 = soundRange(call.coll) - 1
    /\ call.n2 = soundRange(call.coll.ChainWith[1]) - 1
====
